---- MODULE Spec2Model ----
(***************************************************************************)
(* click_params/base.py: the parameter-type adapters BaseParamType,        *)
(* ValidatorParamType, RangeParamType, ListParamType, UnionParamType and   *)
(* EnumParamType.  One adapter is constructed (the __init__ of its class)  *)
(* and then its convert is called once on a raw command-line token.        *)
(*                                                                         *)
(* Encoding of Python values:                                              *)
(*   - a str whose characters the code inspects (raw tokens, separators)   *)
(*     is a sequence of one-character strings, <<"1", ",", "x">>;          *)
(*   - a str that is only ever interpolated into a message (display names, *)
(*     the message itself) is a TLA+ string, built with \o;                *)
(*   - every Python object is a record tagged with its type in field t,    *)
(*     so None, ints, strs, lists and enum members never compare equal.    *)
(***************************************************************************)
EXTENDS Integers, Sequences, FiniteSets, TLC

VARIABLES cls, args, obj, pc, value, param, ctx, outcome, calls

vars == <<cls, args, obj, pc, value, param, ctx, outcome, calls>>

(* ------------------------------ bounds -------------------------------- *)
MaxNumLen == 2
MaxListLen == 3
MaxEnumLen == 3
MaxBound == 10
MaxTypes == 2

(* --------------------------- Python values ---------------------------- *)
PyNone == [t |-> "NoneType"]
PyInt(n) == [t |-> "int", n |-> n]
PyStr(chars) == [t |-> "str", chars |-> chars]
PyText(s) == [t |-> "str", text |-> s]
PyList(items) == [t |-> "list", items |-> items]
PyMember(enum_name, member_name) == [t |-> "enum", enum |-> enum_name, name |-> member_name]

IsNone(x) == x.t = "NoneType"

\* `a or b` on an Optional[str] display name: None and '' are falsy.
PyOr(a, b) == IF IsNone(a) \/ a.text = "" THEN b ELSE a

\* '%s' % name
PercentS(name) == IF IsNone(name) THEN "None" ELSE name.text

RECURSIVE Join(_)
Join(chars) == IF chars = <<>> THEN "" ELSE Head(chars) \o Join(Tail(chars))

Digits == <<"0", "1", "2", "3", "4", "5", "6", "7", "8", "9">>
IsDigit(c) == \E i \in 1..10 : Digits[i] = c
DigitVal(c) == (CHOOSE i \in 1..10 : Digits[i] = c) - 1

RECURSIVE NatStr(_)
NatStr(n) == IF n < 10 THEN Digits[n + 1] ELSE NatStr(n \div 10) \o Digits[(n % 10) + 1]

\* str(n) / f'{n}' of an int
IntStr(n) == IF n < 0 THEN "-" \o NatStr(-n) ELSE NatStr(n)

\* f'{x}' of a bound or a converted value: str(None) is 'None'
FStr(x) == IF IsNone(x) THEN "None" ELSE IntStr(x.n)

RECURSIVE DigitsVal(_, _)
DigitsVal(chars, acc) ==
    IF chars = <<>> THEN acc ELSE DigitsVal(Tail(chars), acc * 10 + DigitVal(Head(chars)))

(* ------------------------------ outcomes ------------------------------ *)
NoOutcome == [kind |-> "none"]
Return(v) == [kind |-> "return", value |-> v]
Raise(exc) == [kind |-> "raise", exc |-> exc]

\* click.ParamType.fail(message, param=None, ctx=None) raises
\* click.BadParameter(message, ctx=ctx, param=param).
Fail(message, p, c) == [kind |-> "BadParameter", message |-> message, param |-> p, ctx |-> c]

NoParam == "None"
NoCtx == "None"

\* A result of convert: what it returned or raised, and the calls it made to
\* the convert of the adapters it wraps, in the order it made them.
Result(out, inner_calls) == [out |-> out, calls |-> inner_calls]
Call(who, v, p, c) == [callee |-> who, value |-> v, param |-> p, ctx |-> c]

\* '{value} is not a valid %s' % name, then .format(value=...)
Template(pre, post) == [pre |-> pre, post |-> post]
Format(template, text) == template.pre \o text \o template.post

(* --------------------- the wrapped plain callables -------------------- *)
\* The exception classes the callables raise, with their base classes
\* (an `except` clause catches subclasses too).
Bases(exc) ==
    CASE exc = "ZeroDivisionError" -> {"ZeroDivisionError", "ArithmeticError", "Exception"}
      [] exc = "ArithmeticError" -> {"ArithmeticError", "Exception"}
      [] exc = "ValueError" -> {"ValueError", "Exception"}
      [] OTHER -> {exc, "Exception"}

\* except self._errors:
Catches(errors, exc) == Bases(exc) \cap errors # {}

CharSet(chars) == {chars[i] : i \in 1..Len(chars)}

RECURSIVE LStrip(_, _)
LStrip(s, set) == IF s # <<>> /\ Head(s) \in set THEN LStrip(Tail(s), set) ELSE s

RECURSIVE RStrip(_, _)
RStrip(s, set) ==
    IF s # <<>> /\ s[Len(s)] \in set THEN RStrip(SubSeq(s, 1, Len(s) - 1), set) ELSE s

\* chr(11), the vertical tab: TLA+ has no escape for it, the string holds the character
VerticalTab == ""

\* The six ASCII characters int() drops around a literal: chr(9)..chr(13) and the space
Whitespace == {" ", "\t", "\n", VerticalTab, "\f", "\r"}

\* The digits part of a decimal literal: digits, with single underscores between digits
IsDigitPart(chars) ==
    /\ chars # <<>>
    /\ IsDigit(chars[1]) /\ IsDigit(chars[Len(chars)])
    /\ \A i \in 1..Len(chars) : IsDigit(chars[i]) \/ chars[i] = "_"
    /\ \A i \in 1..(Len(chars) - 1) : ~(chars[i] = "_" /\ chars[i + 1] = "_")

\* int(value) of an ASCII str, base 10: surrounding whitespace is dropped, one sign may
\* lead, single underscores may separate digits; anything else is a ValueError
PyIntOf(chars) ==
    LET body == RStrip(LStrip(chars, Whitespace), Whitespace)
        signed == body # <<>> /\ Head(body) \in {"+", "-"}
        digits == IF signed THEN Tail(body) ELSE body
        n == DigitsVal(SelectSeq(digits, IsDigit), 0)
    IN  IF IsDigitPart(digits)
        THEN Return(PyInt(IF signed /\ Head(body) = "-" THEN -n ELSE n))
        ELSE Raise("ValueError")

\* 100 // n for n # 0, rounding towards minus infinity
FloorDiv100(n) == IF n > 0 THEN 100 \div n ELSE -((100 + (-n) - 1) \div (-n))

\* lambda v: 100 // int(v)
PyDivOf(chars) ==
    LET r == PyIntOf(chars)
    IN  IF r.kind # "return" THEN r
        ELSE IF r.value.n = 0 THEN Raise("ZeroDivisionError")
        ELSE Return(PyInt(FloorDiv100(r.value.n)))

\* self._type(value)
ApplyType(type, chars) == IF type = "int" THEN PyIntOf(chars) ELSE PyDivOf(chars)

\* self._callback(value): str.isdigit, or bool
ApplyCallback(callback, chars) ==
    IF callback = "isdigit"
    THEN chars # <<>> /\ \A i \in 1..Len(chars) : IsDigit(chars[i])
    ELSE chars # <<>>

(* ---------------------------- BaseParamType --------------------------- *)
BaseParamType_init(a) ==
    LET name == PyOr(a.name, a.cls_name)
    IN  [cls |-> "BaseParamType", _type |-> a._type, _errors |-> a.errors, _name |-> name,
         _error_message |-> Template("", " is not a valid " \o PercentS(name))]

\* A variant that turns every error of the callable into a validation failure.
BaseConvertCatchAll(self, v, p, c) ==
    LET r == ApplyType(self._type, v)
    IN  IF r.kind = "raise"
        THEN Result(Fail(Format(self._error_message, Join(v)), p, c), <<>>)
        ELSE Result(r, <<>>)

BaseParamType_convert(self, v, p, c) ==
    LET r == ApplyType(self._type, v)
    IN  IF r.kind = "raise" /\ Catches(self._errors, r.exc)
        THEN Result(Fail(Format(self._error_message, Join(v)), p, c), <<>>)
        ELSE Result(r, <<>>)

(* -------------------------- ValidatorParamType ------------------------ *)
ValidatorParamType_init(a) ==
    LET name == PyOr(a.name, a.cls_name)
    IN  [cls |-> "ValidatorParamType", _callback |-> a.callback, _name |-> name,
         _error_message |-> Template("", " is not a valid " \o PercentS(name))]

ValidatorParamType_convert(self, v, p, c) ==
    IF ~ApplyCallback(self._callback, v)
    THEN Result(Fail(Format(self._error_message, Join(v)), p, c), <<>>)
    ELSE Result(Return(PyStr(v)), <<>>)

RECURSIVE Convert(_, _, _, _)

(* ---------------------------- RangeParamType -------------------------- *)
RangeParamType_init(a) ==
    [cls |-> "RangeParamType", _minimum |-> a.minimum, _maximum |-> a.maximum,
     _clamp |-> a.clamp, _param_type |-> a.param_type]

\* A variant that picks the message by the side that is violated, not by which
\* bounds are set.
RangeMessageBySide(self, converted_value) ==
    IF ~IsNone(self._maximum) /\ converted_value.n > self._maximum.n
    THEN FStr(converted_value) \o " is bigger than the maximum valid value "
             \o FStr(self._maximum) \o "."
    ELSE FStr(converted_value) \o " is smaller than the minimum valid value "
             \o FStr(self._minimum) \o "."

\* The three messages of lines 69-75, chosen by which bound is None.
RangeMessage(self, converted_value) ==
    IF IsNone(self._minimum)
    THEN FStr(converted_value) \o " is bigger than the maximum valid value "
             \o FStr(self._maximum) \o "."
    ELSE IF IsNone(self._maximum)
    THEN FStr(converted_value) \o " is smaller than the minimum valid value "
             \o FStr(self._minimum) \o "."
    ELSE FStr(converted_value) \o " is not in the valid range of "
             \o FStr(self._minimum) \o " to " \o FStr(self._maximum) \o "."

\* A variant whose comparisons are <= and >=: a value equal to a bound is out of range.
RangeCheckInclusive(self, converted_value, p, c) ==
    LET inferior_to_minimum ==
            ~IsNone(self._minimum) /\ converted_value.n <= self._minimum.n
        superior_to_maximum ==
            ~IsNone(self._maximum) /\ converted_value.n >= self._maximum.n
    IN  IF self._clamp /\ inferior_to_minimum THEN Return(self._minimum)
        ELSE IF self._clamp /\ superior_to_maximum THEN Return(self._maximum)
        ELSE IF inferior_to_minimum \/ superior_to_maximum
        THEN Fail(RangeMessage(self, converted_value), p, c)
        ELSE Return(converted_value)

\* A variant that clamps to the maximum before it looks at the minimum.
RangeCheckMaxFirst(self, converted_value, p, c) ==
    LET inferior_to_minimum ==
            ~IsNone(self._minimum) /\ converted_value.n < self._minimum.n
        superior_to_maximum ==
            ~IsNone(self._maximum) /\ converted_value.n > self._maximum.n
    IN  IF self._clamp /\ superior_to_maximum THEN Return(self._maximum)
        ELSE IF self._clamp /\ inferior_to_minimum THEN Return(self._minimum)
        ELSE IF inferior_to_minimum \/ superior_to_maximum
        THEN Fail(RangeMessage(self, converted_value), p, c)
        ELSE Return(converted_value)

\* Lines 59-76, once the inner conversion has returned converted_value.
RangeCheck(self, converted_value, p, c) ==
    LET inferior_to_minimum ==
            ~IsNone(self._minimum) /\ converted_value.n < self._minimum.n
        superior_to_maximum ==
            ~IsNone(self._maximum) /\ converted_value.n > self._maximum.n
    IN  IF self._clamp /\ inferior_to_minimum THEN Return(self._minimum)
        ELSE IF self._clamp /\ superior_to_maximum THEN Return(self._maximum)
        ELSE IF inferior_to_minimum \/ superior_to_maximum
        THEN Fail(RangeMessage(self, converted_value), p, c)
        ELSE Return(converted_value)

RangeParamType_convert(self, v, p, c) ==
    LET r == Convert(self._param_type, v, p, c).out
        made == <<Call(1, v, p, c)>>
    IN  IF r.kind # "return" THEN Result(r, made)
        \* a str compared with an int bound: TypeError from < or >
        ELSE IF r.value.t # "int" /\ ~(IsNone(self._minimum) /\ IsNone(self._maximum))
        THEN Result(Raise("TypeError"), made)
        ELSE IF r.value.t # "int" THEN Result(r, made)
        ELSE Result(RangeCheck(self, r.value, p, c), made)

(* ---------------------------- ListParamType --------------------------- *)
\* Lines 88-93: a TypeError, or the constructed object.
ListParamType_init(a) ==
    IF a.separator.t # "str"
    THEN Raise("TypeError")
    ELSE LET name == PyOr(a.name, a.cls_name)
         IN  Return([cls |-> "ListParamType", _separator |-> a.separator, _name |-> name,
                     _param_type |-> a.param_type,
                     _error_message |-> Template("These items are not " \o PercentS(name) \o ": ", "")])

\* str.strip(chars): drops every leading and trailing character that occurs in chars
PyStrip(s, chars) == RStrip(LStrip(s, CharSet(chars)), CharSet(chars))

\* expression.strip(self._separator)
StripSeparator(self, expression) == PyStrip(expression, self._separator.chars)

IsPrefix(sep, s) == Len(sep) <= Len(s) /\ SubSeq(s, 1, Len(sep)) = sep

\* str.split(sep) for a non-empty sep: cut at each occurrence of sep, scanning from the
\* left; cur is the token being read.
RECURSIVE SplitFrom(_, _, _)
SplitFrom(s, sep, cur) ==
    IF s = <<>> THEN <<cur>>
    ELSE IF IsPrefix(sep, s)
    THEN <<cur>> \o SplitFrom(SubSeq(s, Len(sep) + 1, Len(s)), sep, <<>>)
    ELSE SplitFrom(Tail(s), sep, Append(cur, Head(s)))

\* str.split(sep): ValueError('empty separator') when sep is ''
PySplit(s, sep) == IF sep = <<>> THEN Raise("ValueError") ELSE Return(SplitFrom(s, sep, <<>>))

\* The for loop of lines 107-111 from item i on.
RECURSIVE ListLoop(_, _, _, _, _, _)
ListLoop(self, items, i, errors, converted_items, made) ==
    IF i > Len(items)
    THEN Result(Return([errors |-> errors, converted_items |-> converted_items]), made)
    ELSE LET r == Convert(self._param_type, items[i], NoParam, NoCtx).out
             made2 == Append(made, Call(1, items[i], NoParam, NoCtx))
         IN  IF r.kind = "return"
             THEN ListLoop(self, items, i + 1, errors, Append(converted_items, r.value), made2)
             ELSE IF r.kind = "BadParameter"
             THEN ListLoop(self, items, i + 1, Append(errors, items[i]), converted_items, made2)
             ELSE Result(r, made2)

\* A variant of the loop that stops at the first item the inner adapter rejects.
RECURSIVE ListLoopFailFast(_, _, _, _, _, _)
ListLoopFailFast(self, items, i, errors, converted_items, made) ==
    IF i > Len(items) \/ errors # <<>>
    THEN Result(Return([errors |-> errors, converted_items |-> converted_items]), made)
    ELSE LET r == Convert(self._param_type, items[i], NoParam, NoCtx).out
             made2 == Append(made, Call(1, items[i], NoParam, NoCtx))
         IN  IF r.kind = "return"
             THEN ListLoopFailFast(self, items, i + 1, errors,
                                   Append(converted_items, r.value), made2)
             ELSE IF r.kind = "BadParameter"
             THEN ListLoopFailFast(self, items, i + 1, Append(errors, items[i]),
                                   converted_items, made2)
             ELSE Result(r, made2)

ConvertExpressionToListFailFast(self, expression) ==
    LET items == PySplit(expression, self._separator.chars)
    IN  IF items.kind = "raise" THEN Result(items, <<>>)
        ELSE ListLoopFailFast(self, items.value, 1, <<>>, <<>>, <<>>)

ConvertExpressionToList(self, expression) ==
    LET items == PySplit(expression, self._separator.chars)
    IN  IF items.kind = "raise" THEN Result(items, <<>>)
        ELSE ListLoop(self, items.value, 1, <<>>, <<>>, <<>>)

\* repr of a list of str: ['x', '1']
RECURSIVE ReprItems(_)
ReprItems(items) ==
    IF items = <<>> THEN ""
    ELSE "'" \o Join(Head(items)) \o "'"
             \o (IF Len(items) > 1 THEN ", " ELSE "") \o ReprItems(Tail(items))

ReprList(items) == "[" \o ReprItems(items) \o "]"

ListParamType_convert(self, v, p, c) ==
    LET stripped == StripSeparator(self, v)
        r == ConvertExpressionToList(self, stripped)
    IN  IF r.out.kind # "return" THEN r
        ELSE IF r.out.value.errors # <<>>
        THEN Result(Fail(Format(self._error_message, ReprList(r.out.value.errors)), p, c), r.calls)
        ELSE Result(Return(PyList(r.out.value.converted_items)), r.calls)

(* ---------------------------- UnionParamType -------------------------- *)
UnionParamType_init(a) ==
    LET name == PyOr(a.name, a.cls_name)
    IN  [cls |-> "UnionParamType", _name |-> name, _param_types |-> a.param_types,
         _error_message |-> Template("", " is not a valid " \o PercentS(name))]

\* The for loop of lines 134-138 from candidate i on, then line 139.
RECURSIVE UnionLoop(_, _, _, _, _, _)
UnionLoop(self, i, v, p, c, made) ==
    IF i > Len(self._param_types)
    THEN Result(Fail(Format(self._error_message, Join(v)), NoParam, NoCtx), made)
    ELSE LET r == Convert(self._param_types[i], v, p, c).out
             made2 == Append(made, Call(i, v, p, c))
         IN  IF r.kind = "BadParameter"
             THEN UnionLoop(self, i + 1, v, p, c, made2)
             ELSE Result(r, made2)

\* A variant of the loop that skips a candidate on any error, not only on BadParameter.
RECURSIVE UnionLoopCatchAll(_, _, _, _, _, _)
UnionLoopCatchAll(self, i, v, p, c, made) ==
    IF i > Len(self._param_types)
    THEN Result(Fail(Format(self._error_message, Join(v)), NoParam, NoCtx), made)
    ELSE LET r == Convert(self._param_types[i], v, p, c).out
             made2 == Append(made, Call(i, v, p, c))
         IN  IF r.kind # "return"
             THEN UnionLoopCatchAll(self, i + 1, v, p, c, made2)
             ELSE Result(r, made2)

UnionConvertCatchAll(self, v, p, c) == UnionLoopCatchAll(self, 1, v, p, c, <<>>)

UnionParamType_convert(self, v, p, c) == UnionLoop(self, 1, v, p, c, <<>>)

(* ---------------------------- EnumParamType --------------------------- *)
EnumParamType_init(a) ==
    [cls |-> "EnumParamType", enum_type |-> a.enum_type, transform_upper |-> a.transform_upper]

Lowercase == <<"a", "b", "c", "d", "e", "f", "g", "h", "i", "j", "k", "l", "m",
               "n", "o", "p", "q", "r", "s", "t", "u", "v", "w", "x", "y", "z">>
Uppercase == <<"A", "B", "C", "D", "E", "F", "G", "H", "I", "J", "K", "L", "M",
               "N", "O", "P", "Q", "R", "S", "T", "U", "V", "W", "X", "Y", "Z">>

UpperChar(ch) ==
    IF \E i \in 1..26 : Lowercase[i] = ch
    THEN Uppercase[CHOOSE i \in 1..26 : Lowercase[i] = ch]
    ELSE ch

\* str.upper() on ASCII
PyUpper(chars) == [i \in 1..Len(chars) |-> UpperChar(chars[i])]

\* A variant whose message shows the value as given, before it was upper-cased.
EnumConvertRawMessage(self, v, p, c) ==
    LET looked == IF self.transform_upper THEN PyUpper(v) ELSE v
    IN  IF Join(looked) \in self.enum_type.members
        THEN Result(Return(PyMember(self.enum_type.name, Join(looked))), <<>>)
        ELSE Result(Fail("Unknown " \o self.enum_type.name \o " value: " \o Join(v),
                         NoParam, NoCtx), <<>>)

EnumParamType_convert(self, v, p, c) ==
    LET looked == IF self.transform_upper THEN PyUpper(v) ELSE v
    IN  IF Join(looked) \in self.enum_type.members
        THEN Result(Return(PyMember(self.enum_type.name, Join(looked))), <<>>)
        ELSE Result(Fail("Unknown " \o self.enum_type.name \o " value: " \o Join(looked),
                         NoParam, NoCtx), <<>>)

(* ------------------------------ dispatch ------------------------------ *)
\* param_type.convert(value, param, ctx) on whatever adapter param_type is
Convert(self, v, p, c) ==
    CASE self.cls = "BaseParamType" -> BaseParamType_convert(self, v, p, c)
      [] self.cls = "ValidatorParamType" -> ValidatorParamType_convert(self, v, p, c)
      [] self.cls = "RangeParamType" -> RangeParamType_convert(self, v, p, c)
      [] self.cls = "ListParamType" -> ListParamType_convert(self, v, p, c)
      [] self.cls = "UnionParamType" -> UnionParamType_convert(self, v, p, c)
      [] self.cls = "EnumParamType" -> EnumParamType_convert(self, v, p, c)

(* ------------------------- inputs of the model ------------------------ *)
SeqsUpTo(S, n) == UNION {[1..k -> S] : k \in 0..n}

Params == {NoParam, "param"}
Ctxs == {NoCtx, "ctx"}

Names == {PyNone, PyText(""), PyText("number")}
ClsNames == {PyNone, PyText("integer")}

\* Literals int() accepts or rejects for their sign, underscores or whitespace
SignedRaws ==
    {<<"-", "1">>, <<"+", "1">>, <<"-", "0">>, <<"1", "_", "0">>, <<" ", "1">>, <<"1", "\t">>,
     <<" ", "-", "5", "\n">>, <<"-", " ", "1">>, <<"1", "_">>, <<"_", "1">>,
     <<"1", "_", "_", "0">>, <<"+", "-", "1">>, <<"-">>, <<"-", "1", "5">>, <<" ">>,
     <<VerticalTab, "1">>, <<"1", VerticalTab>>, <<VerticalTab, "-", "5", VerticalTab>>,
     <<"\r", "5", "\f">>, <<"1", VerticalTab, "0">>}

NumRaws == SeqsUpTo({"0", "1", "5", "x"}, MaxNumLen) \cup SignedRaws
RangeRaws == SeqsUpTo({"0", "1", "5", "-"}, MaxNumLen) \cup {<<"x">>} \cup SignedRaws
ListRaws ==
    SeqsUpTo({"0", "1", "x", ","}, MaxListLen)
        \cup {<<",", "1", ",", "2", ",", "x", ",">>, <<"1", ",", "2", ",", "3">>,
              <<"x", ",", "1", ",", "0", ",", "x">>, <<"1", ",", ",", ",", "2">>,
              <<"-", "1", ",", "+", "1">>, <<"1", ",", "-", "0">>, <<" ", "1", ",", "1", "_", "0">>,
              <<"1", "_", ",", "-", "5">>}
EnumRaws ==
    SeqsUpTo({"o", "n", "O", "N"}, MaxEnumLen)
        \cup {<<"r", "e", "d">>, <<"R", "E", "D">>, <<"R", "e", "d">>, <<"b", "l", "u", "e">>,
              <<"g", "r", "e", "e", "n">>, <<"O", "F", "F">>, <<"o", "f", "f">>}

\* Adapters to wrap: int and a division, each over BaseParamType, and str.isdigit
\* over ValidatorParamType.
IntType ==
    BaseParamType_init([_type |-> "int", errors |-> {"ValueError"}, name |-> PyNone,
                        cls_name |-> PyText("integer")])
DivType ==
    BaseParamType_init([_type |-> "div", errors |-> {"ValueError"}, name |-> PyNone,
                        cls_name |-> PyText("ratio")])
SafeDivType ==
    BaseParamType_init([_type |-> "div", errors |-> {"ValueError", "ZeroDivisionError"},
                        name |-> PyNone, cls_name |-> PyText("ratio")])
DigitsType ==
    ValidatorParamType_init([callback |-> "isdigit", name |-> PyNone,
                             cls_name |-> PyText("digits")])

BaseArgs ==
    [_type : {"int", "div"},
     errors : {{}, {"ValueError"}, {"ValueError", "ZeroDivisionError"}, {"ArithmeticError"}},
     name : Names, cls_name : ClsNames]

ValidatorArgs == [callback : {"isdigit", "bool"}, name : Names, cls_name : ClsNames]

Bounds == {PyNone} \cup {PyInt(n) : n \in -1..MaxBound}

RangeArgs ==
    [param_type : {IntType, DigitsType}, minimum : Bounds, maximum : Bounds, clamp : BOOLEAN]

Separators ==
    {PyNone, PyInt(1), PyStr(<<>>), PyStr(<<",">>), PyStr(<<",", ",">>), PyStr(<<"x", ",">>)}

ListArgs ==
    [param_type : {IntType, DivType, SafeDivType}, separator : Separators,
     name : {PyNone, PyText("numbers")}, cls_name : {PyText("list")}]

UnionArgs ==
    [param_types : SeqsUpTo({IntType, DivType, SafeDivType, DigitsType}, MaxTypes),
     name : {PyNone, PyText("number")}, cls_name : {PyText("union")}]

Color == [name |-> "Color", members |-> {"RED", "GREEN"}]
Switch == [name |-> "Switch", members |-> {"on", "OFF"}]

EnumArgs == [enum_type : {Color, Switch}, transform_upper : BOOLEAN]

Classes ==
    {"BaseParamType", "ValidatorParamType", "RangeParamType", "ListParamType",
     "UnionParamType", "EnumParamType"}

ArgsOf(k) ==
    CASE k = "BaseParamType" -> BaseArgs
      [] k = "ValidatorParamType" -> ValidatorArgs
      [] k = "RangeParamType" -> RangeArgs
      [] k = "ListParamType" -> ListArgs
      [] k = "UnionParamType" -> UnionArgs
      [] k = "EnumParamType" -> EnumArgs

NoObj == [cls |-> "none"]

(* --------------------------- the state machine ------------------------ *)
\* A class and the arguments of its constructor have been chosen; nothing has run.
Init ==
    /\ pc = "new"
    /\ cls \in Classes
    /\ args \in ArgsOf(cls)
    /\ obj = NoObj
    /\ value = <<>>
    /\ param = NoParam
    /\ ctx = NoCtx
    /\ outcome = NoOutcome
    /\ calls = <<>>

Constructed(o) ==
    /\ obj' = o
    /\ pc' = "ready"
    /\ UNCHANGED <<cls, args, value, param, ctx, outcome, calls>>

\* obj.convert(v, p, c) has run to its end.
Converted(v, p, c, r) ==
    /\ value' = v
    /\ param' = p
    /\ ctx' = c
    /\ outcome' = r.out
    /\ calls' = r.calls
    /\ pc' = "done"
    /\ UNCHANGED <<cls, args, obj>>

BaseInit == pc = "new" /\ cls = "BaseParamType" /\ Constructed(BaseParamType_init(args))

BaseConvert ==
    /\ pc = "ready" /\ cls = "BaseParamType"
    /\ \E v \in NumRaws, p \in Params, c \in Ctxs :
           Converted(v, p, c, BaseParamType_convert(obj, v, p, c))

ValidatorInit ==
    pc = "new" /\ cls = "ValidatorParamType" /\ Constructed(ValidatorParamType_init(args))

ValidatorConvert ==
    /\ pc = "ready" /\ cls = "ValidatorParamType"
    /\ \E v \in NumRaws, p \in Params, c \in Ctxs :
           Converted(v, p, c, ValidatorParamType_convert(obj, v, p, c))

RangeInit == pc = "new" /\ cls = "RangeParamType" /\ Constructed(RangeParamType_init(args))

RangeConvert ==
    /\ pc = "ready" /\ cls = "RangeParamType"
    /\ \E v \in RangeRaws, p \in Params, c \in Ctxs :
           Converted(v, p, c, RangeParamType_convert(obj, v, p, c))

\* The constructor either raises TypeError (no object exists) or returns the object.
ListInit ==
    /\ pc = "new" /\ cls = "ListParamType"
    /\ LET r == ListParamType_init(args)
       IN  IF r.kind = "raise"
           THEN /\ outcome' = r
                /\ pc' = "init_raised"
                /\ UNCHANGED <<cls, args, obj, value, param, ctx, calls>>
           ELSE Constructed(r.value)

ListConvert ==
    /\ pc = "ready" /\ cls = "ListParamType"
    /\ \E v \in ListRaws, p \in Params, c \in Ctxs :
           Converted(v, p, c, ListParamType_convert(obj, v, p, c))

UnionInit == pc = "new" /\ cls = "UnionParamType" /\ Constructed(UnionParamType_init(args))

UnionConvert ==
    /\ pc = "ready" /\ cls = "UnionParamType"
    /\ \E v \in NumRaws, p \in Params, c \in Ctxs :
           Converted(v, p, c, UnionParamType_convert(obj, v, p, c))

EnumInit == pc = "new" /\ cls = "EnumParamType" /\ Constructed(EnumParamType_init(args))

EnumConvert ==
    /\ pc = "ready" /\ cls = "EnumParamType"
    /\ \E v \in EnumRaws, p \in Params, c \in Ctxs :
           Converted(v, p, c, EnumParamType_convert(obj, v, p, c))

Next ==
    \/ BaseInit \/ BaseConvert
    \/ ValidatorInit \/ ValidatorConvert
    \/ RangeInit \/ RangeConvert
    \/ ListInit \/ ListConvert
    \/ UnionInit \/ UnionConvert
    \/ EnumInit \/ EnumConvert

Spec == Init /\ [][Next]_vars

(* ============================== claims =============================== *)
Done(k) == pc = "done" /\ cls = k

\* msg contains phrase as a substring
Contains(msg, phrase) ==
    \E i \in 1..(Len(msg) - Len(phrase) + 1) : SubSeq(msg, i, i + Len(phrase) - 1) = phrase

\* What the adapter wrapped by obj returned or raised for the raw value of this call.
InnerOutcome == Convert(obj._param_type, value, param, ctx).out

\* The call is a RangeParamType.convert whose inner conversion returned an int.
RangeCase == Done("RangeParamType") /\ InnerOutcome.kind = "return" /\ InnerOutcome.value.t = "int"

Below(v) == ~IsNone(obj._minimum) /\ v < obj._minimum.n
Above(v) == ~IsNone(obj._maximum) /\ v > obj._maximum.n

\* C1: RangeParamType.convert with clamp disabled returns the inner-converted value v
\* exactly when v is neither below a set minimum nor above a set maximum; otherwise it
\* fails, with the 'bigger than the maximum' message when only the maximum is set, the
\* 'smaller than the minimum' message when only the minimum is set and the 'not in the
\* valid range' message when both are set. With neither bound set it returns v.
C1_RangeNoClamp ==
    (RangeCase /\ ~obj._clamp) =>
        LET v == InnerOutcome.value.n
        IN  /\ (outcome = Return(PyInt(v))) <=> (~Below(v) /\ ~Above(v))
            /\ (Below(v) \/ Above(v)) =>
                   /\ outcome.kind = "BadParameter"
                   /\ outcome.message =
                          IF IsNone(obj._minimum)
                          THEN IntStr(v) \o " is bigger than the maximum valid value "
                                   \o IntStr(obj._maximum.n) \o "."
                          ELSE IF IsNone(obj._maximum)
                          THEN IntStr(v) \o " is smaller than the minimum valid value "
                                   \o IntStr(obj._minimum.n) \o "."
                          ELSE IntStr(v) \o " is not in the valid range of "
                                   \o IntStr(obj._minimum.n) \o " to "
                                   \o IntStr(obj._maximum.n) \o "."
            /\ (IsNone(obj._minimum) /\ IsNone(obj._maximum)) => outcome = Return(PyInt(v))

\* A value equal to the minimum passes, clamp disabled, both bounds set.
C1_Witness ==
    /\ RangeCase /\ ~obj._clamp
    /\ ~IsNone(obj._minimum) /\ ~IsNone(obj._maximum)
    /\ InnerOutcome.value.n = obj._minimum.n
    /\ obj._minimum.n < obj._maximum.n
    /\ outcome = Return(obj._minimum)

\* The adapter of the example: minimum=1, maximum=10, clamp=False around the int adapter.
C2_Config ==
    /\ Done("RangeParamType")
    /\ obj._param_type = IntType
    /\ obj._minimum = PyInt(1) /\ obj._maximum = PyInt(10) /\ ~obj._clamp

\* C2 as stated: with minimum=1, maximum=10, clamp=False, "5" returns 5, "15" fails
\* with an error containing "bigger than the maximum valid value 10" and "0" fails with
\* an error containing "smaller than the minimum valid value 1".
C2_AsStated ==
    C2_Config =>
        /\ value = <<"5">> => outcome = Return(PyInt(5))
        /\ value = <<"1", "5">> =>
               /\ outcome.kind = "BadParameter"
               /\ Contains(outcome.message, "bigger than the maximum valid value 10")
        /\ value = <<"0">> =>
               /\ outcome.kind = "BadParameter"
               /\ Contains(outcome.message, "smaller than the minimum valid value 1")

\* C2 amended: with minimum=1, maximum=10, clamp=False, "5" returns 5, and "15" and "0"
\* both fail with the both-bounds message, "{v} is not in the valid range of 1 to 10.".
C2_RangeExample ==
    C2_Config =>
        /\ value = <<"5">> => outcome = Return(PyInt(5))
        /\ value = <<"1", "5">> =>
               outcome = Fail("15 is not in the valid range of 1 to 10.", param, ctx)
        /\ value = <<"0">> =>
               outcome = Fail("0 is not in the valid range of 1 to 10.", param, ctx)

\* "15" has been converted by the adapter of the example and was rejected.
C2_Witness == C2_Config /\ value = <<"1", "5">> /\ outcome.kind = "BadParameter"

\* C3 as stated: with clamp enabled the call never fails because of the bounds; it
\* returns the minimum when the minimum is set and v < minimum, the maximum when the
\* maximum is set and v > maximum, and v otherwise.
C3_AsStated ==
    (RangeCase /\ obj._clamp) =>
        LET v == InnerOutcome.value.n
        IN  /\ outcome.kind = "return"
            /\ Below(v) => outcome = Return(obj._minimum)
            /\ Above(v) => outcome = Return(obj._maximum)
            /\ (~Below(v) /\ ~Above(v)) => outcome = Return(PyInt(v))

\* C3 amended: with clamp enabled the call never fails because of the bounds; it
\* returns the minimum when the minimum is set and v < minimum; it returns the maximum
\* when the maximum is set, v > maximum and v is not below a set minimum (the minimum
\* is tested first, which decides the case minimum > maximum); it returns v otherwise.
C3_RangeClamp ==
    (RangeCase /\ obj._clamp) =>
        LET v == InnerOutcome.value.n
        IN  /\ outcome.kind = "return"
            /\ Below(v) => outcome = Return(obj._minimum)
            /\ (Above(v) /\ ~Below(v)) => outcome = Return(obj._maximum)
            /\ (~Below(v) /\ ~Above(v)) => outcome = Return(PyInt(v))

\* Clamp enabled, minimum above maximum, v between the two: the minimum is returned.
C3_Witness ==
    /\ RangeCase /\ obj._clamp
    /\ Below(InnerOutcome.value.n) /\ Above(InnerOutcome.value.n)
    /\ outcome = Return(obj._minimum)

(* ------------------------------- lists -------------------------------- *)
\* A ListParamType.convert call on an adapter whose separator str.split accepts.
ListCase == Done("ListParamType") /\ obj._separator.chars # <<>>

\* The tokens of the call: the raw value stripped, then split.
Tokens == SplitFrom(StripSeparator(obj, value), obj._separator.chars, <<>>)

\* The raw tokens handed to the inner adapter, in the order of the calls.
Handed == [i \in 1..Len(calls) |-> calls[i].value]

ItemOutcome(tok) == Convert(obj._param_type, tok, NoParam, NoCtx).out
ItemFails(tok) == ItemOutcome(tok).kind = "BadParameter"
ItemRaises(tok) == ItemOutcome(tok).kind = "raise"
Failing(T) == SelectSeq(T, ItemFails)

\* outcome is the list of the converted values of the tokens T, one per token, in order
ReturnsAll(T) ==
    /\ outcome.kind = "return"
    /\ outcome.value.t = "list"
    /\ Len(outcome.value.items) = Len(T)
    /\ \A i \in 1..Len(T) :
           /\ ItemOutcome(T[i]).kind = "return"
           /\ outcome.value.items[i] = ItemOutcome(T[i]).value

\* convert behaves all-or-nothing on the tokens T
AllOrNothing(T) ==
    /\ Handed = T
    /\ Failing(T) # <<>> =>
           outcome = Fail("These items are not " \o PercentS(obj._name) \o ": "
                              \o ReprList(Failing(T)), param, ctx)
    /\ Failing(T) = <<>> => ReturnsAll(T)

\* C4 as stated: every token is handed to the inner adapter; if at least one token
\* fails validation the call fails with 'These items are not {name}: {errors}', errors
\* being all failing raw tokens in input order; if none fails the call returns the
\* converted values, one per token, in order.
C4_AsStated == ListCase => AllOrNothing(Tokens)

\* C4 amended: as stated when no token makes the inner adapter raise an error that is
\* not a validation error; when a token does, the call propagates the error of the
\* first such token at once, and the tokens after it are never handed to the inner
\* adapter (whatever the tokens before it did).
C4_ListAllOrNothing ==
    ListCase =>
        LET T == Tokens
        IN  IF \A i \in 1..Len(T) : ~ItemRaises(T[i])
            THEN AllOrNothing(T)
            ELSE LET k == CHOOSE j \in 1..Len(T) :
                              ItemRaises(T[j]) /\ \A h \in 1..(j - 1) : ~ItemRaises(T[h])
                 IN  /\ Handed = SubSeq(T, 1, k)
                     /\ outcome = ItemOutcome(T[k])

\* A list with two bad items and a good item after the first bad one was rejected.
C4_Witness ==
    /\ ListCase
    /\ \A i \in 1..Len(Tokens) : ~ItemRaises(Tokens[i])
    /\ Len(Failing(Tokens)) >= 2
    /\ \E i, j \in 1..Len(Tokens) : i < j /\ ItemFails(Tokens[i]) /\ ~ItemFails(Tokens[j])
    /\ outcome.kind = "BadParameter"

\* C7 as stated: a misconfigured separator is rejected at construction time, not at
\* conversion time: a non-string separator makes the constructor raise, and no
\* constructed ListParamType fails during convert because of its separator (an error
\* raised before any token reached the inner adapter).
C7_AsStated ==
    cls = "ListParamType" =>
        /\ (pc # "new" /\ args.separator.t # "str") =>
               (pc = "init_raised" /\ outcome = Raise("TypeError"))
        /\ pc = "done" => ~(outcome.kind = "raise" /\ calls = <<>>)

\* s is v without its leading and trailing characters of set
IsStripped(s, v, set) ==
    \E i \in 1..(Len(v) + 1), j \in 0..Len(v) :
        /\ i <= j + 1
        /\ s = SubSeq(v, i, j)
        /\ \A k \in 1..(i - 1) : v[k] \in set
        /\ \A k \in (j + 1)..Len(v) : v[k] \in set
        /\ s # <<>> => (s[1] \notin set /\ s[Len(s)] \notin set)

RECURSIVE JoinSep(_, _)
JoinSep(T, sep) ==
    IF Len(T) = 1 THEN T[1] ELSE T[1] \o sep \o JoinSep(Tail(T), sep)

\* sep occurs in s at a position <= last
OccursBy(sep, s, last) == \E i \in 1..last : IsPrefix(sep, SubSeq(s, i, Len(s)))

\* T is the split of s on sep: T joined by sep is s, every cut is at the leftmost
\* occurrence of sep in what remained, and no sep is left in the last token.
IsSplit(T, s, sep) ==
    /\ Len(T) >= 1
    /\ JoinSep(T, sep) = s
    /\ \A k \in 1..(Len(T) - 1) : ~OccursBy(sep, T[k] \o sep, Len(T[k]))
    /\ ~OccursBy(sep, T[Len(T)], Len(T[Len(T)]))

\* The tokens handed on are the tokenization the claim describes.
Tokenized ==
    /\ Len(calls) >= 1
    /\ outcome.kind # "raise" =>
           \E s \in {StripSeparator(obj, value)} :
               /\ IsStripped(s, value, CharSet(obj._separator.chars))
               /\ IsSplit(Handed, s, obj._separator.chars)
               /\ s = <<>> => Handed = << <<>> >>

\* C8 as stated: for every raw string and separator, convert strips the leading and
\* trailing separator characters and splits the rest on the separator, without limit;
\* an input that is empty or made of separators yields one empty token, which is still
\* passed to the inner adapter; interior empty tokens are kept.
C8_AsStated == Done("ListParamType") => Tokenized

\* C8 on the adapters whose separator is not the empty string.
C8_NonEmptySeparator == ListCase => Tokenized

\* C8's example: ",1,2,x," split on "," hands exactly "1", "2", "x" to the inner adapter.
C8_Example ==
    (ListCase /\ obj._separator.chars = <<",">>
        /\ value = <<",", "1", ",", "2", ",", "x", ",">>)
        => Handed = << <<"1">>, <<"2">>, <<"x">> >>

(* ------------------------------- unions ------------------------------- *)
\* What candidate i returns or raises for the raw value of this call.
CandOutcome(i) == Convert(obj._param_types[i], value, param, ctx).out

\* Candidate i ends the search: it succeeds, or raises something else than a
\* validation error.
Decisive(i) == CandOutcome(i).kind # "BadParameter"

\* The candidates 1..k were called in this order, each once, with the call's arguments.
TriedUpTo(k) == calls = [i \in 1..k |-> Call(i, value, param, ctx)]

\* C5: UnionParamType.convert tries its candidates in the configured order; the call's
\* outcome is that of the first candidate that does not fail validation (its result,
\* even when a later candidate would also succeed, or its non-validation error, which
\* propagates) and no later candidate is tried; when every candidate fails validation
\* the call fails with '{raw} is not a valid {name}'.
C5_UnionFirstMatch ==
    Done("UnionParamType") =>
        LET n == Len(obj._param_types)
        IN  IF \E i \in 1..n : Decisive(i)
            THEN LET k == CHOOSE i \in 1..n : Decisive(i) /\ \A h \in 1..(i - 1) : ~Decisive(h)
                 IN  outcome = CandOutcome(k) /\ TriedUpTo(k)
            ELSE /\ outcome.kind = "BadParameter"
                 /\ outcome.message = Join(value) \o " is not a valid " \o PercentS(obj._name)
                 /\ TriedUpTo(n)

\* The first of two candidates succeeded and the second, which would have given
\* another value, was not tried.
C5_Witness ==
    /\ Done("UnionParamType")
    /\ Len(obj._param_types) = 2
    /\ CandOutcome(1).kind = "return" /\ CandOutcome(2).kind = "return"
    /\ CandOutcome(1) # CandOutcome(2)
    /\ outcome = CandOutcome(1)
    /\ Len(calls) = 1

(* ----------------------------- all adapters --------------------------- *)
\* C6 as stated: every validation failure signalled by an adapter's convert carries a
\* message, the parameter and the context that were passed to that convert call.
C6_AsStated ==
    (pc = "done" /\ outcome.kind = "BadParameter") =>
        /\ outcome.message # ""
        /\ outcome.param = param
        /\ outcome.ctx = ctx

\* C6 on the adapters that pass param and ctx to self.fail.
C6_PassingAdapters ==
    (pc = "done" /\ outcome.kind = "BadParameter"
        /\ cls \in {"BaseParamType", "ValidatorParamType", "RangeParamType", "ListParamType"}) =>
        /\ outcome.message # ""
        /\ outcome.param = param
        /\ outcome.ctx = ctx

(* -------------------------------- base -------------------------------- *)
\* The display name of the adapter, from the arguments of its constructor.
DisplayName ==
    IF ~IsNone(args.name) /\ args.name.text # "" THEN args.name.text
    ELSE IF IsNone(args.cls_name) THEN "None" ELSE args.cls_name.text

\* exc is one of the error kinds designated at construction (or a subclass of one)
Designated(exc) == \E e \in args.errors : e \in Bases(exc)

\* C9: BaseParamType.convert returns what the wrapped function returns; an error of a
\* designated kind becomes a validation error '{raw} is not a valid {name}'; an error
\* of any other kind propagates unchanged.
C9_BaseConvert ==
    Done("BaseParamType") =>
        LET r == ApplyType(args._type, value)
        IN  /\ r.kind = "return" => outcome = r
            /\ (r.kind = "raise" /\ Designated(r.exc)) =>
                   /\ outcome.kind = "BadParameter"
                   /\ outcome.message = Join(value) \o " is not a valid " \o DisplayName
            /\ (r.kind = "raise" /\ ~Designated(r.exc)) => outcome = r

\* The function raised ZeroDivisionError, only ValueError was designated, and the
\* ZeroDivisionError came out of convert.
C9_Witness ==
    /\ Done("BaseParamType")
    /\ args.errors = {"ValueError"}
    /\ ApplyType(args._type, value) = Raise("ZeroDivisionError")
    /\ outcome = Raise("ZeroDivisionError")

(* -------------------------------- enums ------------------------------- *)
\* The value looked up: upper-cased when transform_upper is set.
Normalized == IF args.transform_upper THEN PyUpper(value) ELSE value

\* C10: EnumParamType.convert returns the member whose name is exactly the normalized
\* value (upper-cased when transform_upper is set, as given otherwise) and fails with
\* 'Unknown {enum_type_name} value: {value}', value being the normalized value, when no
\* member has that name; with members RED and GREEN and transform_upper, "red" gives
\* RED and "blue" fails with "Unknown Color value: BLUE".
C10_EnumConvert ==
    Done("EnumParamType") =>
        /\ IF \E m \in args.enum_type.members : m = Join(Normalized)
           THEN outcome = Return(PyMember(args.enum_type.name, Join(Normalized)))
           ELSE /\ outcome.kind = "BadParameter"
                /\ outcome.message =
                       "Unknown " \o args.enum_type.name \o " value: " \o Join(Normalized)
        /\ (args.enum_type = Color /\ args.transform_upper) =>
               /\ value = <<"r", "e", "d">> => outcome = Return(PyMember("Color", "RED"))
               /\ value = <<"b", "l", "u", "e">> =>
                      (outcome.kind = "BadParameter"
                           /\ outcome.message = "Unknown Color value: BLUE")

\* "blue" was looked up in Color with transform_upper and rejected as BLUE.
C10_Witness ==
    /\ Done("EnumParamType")
    /\ args.enum_type = Color /\ args.transform_upper
    /\ value = <<"b", "l", "u", "e">>
    /\ outcome.kind = "BadParameter"
    /\ Contains(outcome.message, "BLUE")

====
